---- MODULE Spec2Model ----
(***************************************************************************)
(* The local filesystem backend of the runner                              *)
(* (runner/internal/backend/local/backend.go).                             *)
(*                                                                         *)
(* A facade (type Local) is bound to the home root <home>/.dstack, which   *)
(* is shared by every runner process of the user.  The model keeps the     *)
(* part of the home root the facade touches, the fields of each facade,    *)
(* the position of each facade inside UpdateState and a record of the last *)
(* call each facade made (operation, inputs, result, storage calls).       *)
(*                                                                         *)
(* File and entry names whose characters matter (head files, secret        *)
(* entries, path suffixes) are sequences of one-character strings.         *)
(***************************************************************************)
EXTENDS Integers, Sequences, FiniteSets, TLC

\* ------------------------------------------------------------------ text

\* The byte value of the characters that occur in names.
Code(c) ==
    CASE c = "#" -> 35 [] c = "." -> 46 [] c = "/" -> 47
      [] c = "1" -> 49 [] c = "2" -> 50 [] c = "9" -> 57 [] c = ";" -> 59
      [] c = "J" -> 74 [] c = "M" -> 77
      [] c = "a" -> 97 [] c = "b" -> 98 [] c = "d" -> 100 [] c = "e" -> 101
      [] c = "g" -> 103 [] c = "h" -> 104 [] c = "i" -> 105 [] c = "l" -> 108
      [] c = "m" -> 109 [] c = "n" -> 110 [] c = "o" -> 111 [] c = "r" -> 114
      [] c = "s" -> 115 [] c = "t" -> 116 [] c = "u" -> 117 [] c = "y" -> 121

\* Go's string comparison a < b: bytewise, a proper prefix is smaller.
RECURSIVE StrLess(_, _)
StrLess(a, b) ==
    IF b = <<>> THEN FALSE
    ELSE IF a = <<>> THEN TRUE
    ELSE IF Head(a) = Head(b) THEN StrLess(Tail(a), Tail(b))
    ELSE Code(Head(a)) < Code(Head(b))

\* strings.HasPrefix(s, prefix)
HasPrefix(s, prefix) ==
    /\ Len(prefix) <= Len(s)
    /\ SubSeq(s, 1, Len(prefix)) = prefix

\* strings.ReplaceAll(s, old, new) for a non-empty old: every non-overlapping
\* occurrence of old, scanning from the left, is replaced by new.
RECURSIVE ReplaceAll(_, _, _)
ReplaceAll(s, old, new) ==
    IF s = <<>> THEN <<>>
    ELSE IF HasPrefix(s, old)
         THEN new \o ReplaceAll(SubSeq(s, Len(old) + 1, Len(s)), old, new)
         ELSE <<Head(s)>> \o ReplaceAll(Tail(s), old, new)

\* The elements of a finite set of names as the sorted sequence a directory
\* listing returns.
RECURSIVE SortedSeq(_)
SortedSeq(S) ==
    IF S = {} THEN <<>>
    ELSE LET m == CHOOSE x \in S : \A y \in S \ {x} : StrLess(x, y)
         IN  <<m>> \o SortedSeq(S \ {m})

\* ------------------------------------------------------------ the data

\* Runner processes sharing the home root, each with one facade.
Procs == {"p1", "p2"}

\* Runner ids the orchestrator hands to Init.
RunnerIds == {"R1", "R2"}

\* The identity of the job the runners work on, and its repository.
JobID1 == <<"J", "1">>
OtherJobID == <<"J", "2">>
MasterID == <<"M", "9">>
RepoHost == <<"h">>
RepoUser == <<"u">>
RepoName == <<"r">>

\* Job statuses, as they are spelled in a head file name.
Done == <<"d", "o", "n", "e">>
Running == <<"r", "u", "n">>
Submitted == <<"s", "u", "b">>
Statuses == {Done, Running, Submitted}

\* models.Job: the fields the backend reads.
Jobs ==
    [JobID : {JobID1}, MasterJobID : {<<>>, MasterID},
     RepoHostNameWithPort : {RepoHost}, RepoUserName : {RepoUser},
     RepoName : {RepoName}, Status : Statuses, Requirements : {"cpu"}]

\* File contents.  A document carries every field of the record it
\* serializes.
Absent == [kind |-> "absent"]
Corrupt == [kind |-> "corrupt"]
StateDoc(job) == [kind |-> "state", job |-> job]
JobDoc(job) == [kind |-> "job", job |-> job]
HeadBody(n) == [kind |-> "head", id |-> n]
Text(body) == [kind |-> "text", body |-> body]
ConfigDoc(path) == [kind |-> "config", path |-> path]
CredsDoc == [kind |-> "creds", protocol |-> "https", username |-> "u", secret |-> "#"]

\* Values of the `path` key of a backend config file, as path elements; empty
\* when the file has no such key.
ConfigPaths == {<<>>, <<"data">>, <<"home", "u", ".dstack">>}

\* Backend config files: missing, not parseable, or parseable.
ConfigFiles == {Absent, Corrupt} \cup {ConfigDoc(x) : x \in ConfigPaths}

\* common.HomeDir() and consts.DSTACK_DIR_PATH, as path elements.
HomeDir == <<"home", "u">>
DSTACK_DIR_PATH == ".dstack"

\* filepath.Join(dir, elem)
Join(dir, elem) == Append(dir, elem)

\* The held State: nil until a runner file was decoded into it.
NilState == [kind |-> "nil"]
HeldState(job) == [kind |-> "held", Job |-> job]

\* states.Stopping
Stopping == "Stopping"

\* Job.JobFilepath(): jobs/<repo-user>/<repo-name>/<job-id>.yaml, as a name
\* inside the repository's jobs directory.
YamlName(id) == id \o <<".", "y", "a", "m", "l">>
JobFilepath(job) == YamlName(job.JobID)

\* Job.JobHeadFilepathPrefix() and Job.JobHeadFilepath(): the head file name
\* is the ";"-joined tuple of job fields, starting with the per-job prefix.
HeadPrefixOf(id) == <<"l", ";">> \o id \o <<";">>
JobHeadFilepathPrefix(job) == HeadPrefixOf(job.JobID)
JobHeadFilepath(job) == JobHeadFilepathPrefix(job) \o job.Status

\* The names that can occur in the repository's jobs directory: job
\* documents, the head files of the job, a head file of another job.
OtherHead == HeadPrefixOf(OtherJobID) \o Running
HeadNames == {HeadPrefixOf(JobID1) \o s : s \in Statuses}
JobsDirNames == {YamlName(JobID1), YamlName(MasterID)} \cup HeadNames \cup {OtherHead}

\* The job record the master job document holds.
MasterJobRec ==
    [JobID |-> MasterID, MasterJobID |-> <<>>, RepoHostNameWithPort |-> RepoHost,
     RepoUserName |-> RepoUser, RepoName |-> RepoName, Status |-> Running,
     Requirements |-> "cpu"]

\* The job a freshly submitted run starts from.
DefaultJob == CHOOSE j \in Jobs : j.MasterJobID = <<>> /\ j.Status = Submitted

\* Stop signal bodies a supervisor may have written.
StopBodies == {"Stopping", "Running", "Stopping\n"}

\* Entries of the job's secret directory: regular files and subdirectories.
SecretEntries ==
    { [name |-> <<"l", ";", "a">>, dir |-> FALSE],
      [name |-> <<"l", ";", "a", "l", ";", "b">>, dir |-> FALSE],
      [name |-> <<"b">>, dir |-> FALSE],
      [name |-> <<"l", ";", "d">>, dir |-> TRUE] }

\* ------------------------------------------------------------- bounds

\* The most head files the job's head-prefix directory starts with.
MaxHeadFiles == 2

\* The most entries the secret directory starts with.
MaxSecretEntries == 2

\* ------------------------------------------------------------ storage

\* The file at a name of a directory; a name the directory never held is
\* absent.
FileAt(dir, name) == IF name \in DOMAIN dir THEN dir[name] ELSE Absent

\* LocalStorage.GetFile: the contents, NotFound when absent, IO otherwise.
GetFile(file, fault) ==
    IF fault = "GetFile" THEN [err |-> "IO", contents |-> Absent]
    ELSE IF file.kind = "absent" THEN [err |-> "NotFound", contents |-> Absent]
    ELSE [err |-> "nil", contents |-> file]

\* LocalStorage.PutFile: writes the contents, replacing any prior file.
PutFile(dir, name, contents) == [dir EXCEPT ![name] = contents]

\* LocalStorage.ListFile: the regular files whose path begins with the
\* prefix, in lexicographic order; empty when there is none.
ListFile(dir, prefix) ==
    SortedSeq({n \in DOMAIN dir : dir[n].kind # "absent" /\ HasPrefix(n, prefix)})

\* LocalStorage.RenameFile: the host's rename. The source replaces whatever
\* the target name held; renaming a file onto its own name changes nothing.
RenameFile(dir, from, to) ==
    IF from = to THEN dir
    ELSE [dir EXCEPT ![to] = dir[from], ![from] = Absent]

\* yaml.Unmarshal(contents, &out): a document that does not parse leaves out
\* as it was; a State, Job or config document sets every field of out.
Unmarshal(contents, out) ==
    IF contents.kind = "corrupt" THEN [err |-> "Corrupt", out |-> out]
    ELSE IF contents.kind = "state"
         THEN [err |-> "nil", out |-> HeldState(contents.job)]
    ELSE IF contents.kind = "config"
         THEN [err |-> "nil", out |-> [Path |-> contents.path]]
         ELSE [err |-> "nil", out |-> contents.job]

\* ioutil.ReadFile: the contents of a file outside the home root.
ReadFile(file, fault) ==
    IF fault = "ReadFile" THEN [err |-> "IO", contents |-> Absent]
    ELSE IF file.kind = "absent" THEN [err |-> "NotExist", contents |-> Absent]
    ELSE [err |-> "nil", contents |-> file]

\* yaml.Marshal(&job)
Marshal(job) == JobDoc(job)

\* ---------------------------------------------------------- the state

VARIABLES
    runners,     \* runners/<id>.yaml, by runner id
    status,      \* runners/m;<id>;status, by runner id
    jobsDir,     \* jobs/<repo-user>/<repo-name>/, by file name
    secretsDir,  \* secrets/<host>/<user>/<repo>/: whether it exists, its entries
    gitCreds,    \* the credentials file of the job's repository
    config,      \* the backend config file each runner process is started with
    procs,       \* the runner processes that are running
    runnerID,    \* Local.runnerID of each facade
    state,       \* Local.state of each facade
    pc,          \* where each facade is inside UpdateState
    files,       \* UpdateState's local listing of the head-prefix directory
    call,        \* the last call of each facade: argument, fault met, result, storage
                 \* calls made, mapping sent to the credential store, head files
                 \* found at its start, whether it repeats the call before it
    heads0       \* the head files the job's head-prefix directory started with

fsVars == <<runners, status, jobsDir, secretsDir, gitCreds, config>>
facadeVars == <<runnerID, state>>
vars == <<runners, status, jobsDir, secretsDir, gitCreds, config, procs, runnerID, state, pc, files, call, heads0>>

\* The head files of the job: what ListFile finds under its head prefix.
HeadFiles(dir) == {n \in DOMAIN dir : dir[n].kind # "absent" /\ HasPrefix(n, HeadPrefixOf(JobID1))}

\* The head-prefix directory of the job: every head file name with what it
\* holds.
HeadsOf(dir) == [n \in HeadNames |-> dir[n]]

NoRet == [kind |-> "none"]
NoCall == [op |-> "none", arg |-> NoRet, fault |-> "none", ret |-> NoRet, err |-> "nil",
           trace |-> <<>>, sent |-> NoRet, pre |-> NoRet, again |-> FALSE]
Call(op, fault, ret, err, trace) ==
    [op |-> op, arg |-> NoRet, fault |-> fault, ret |-> ret, err |-> err, trace |-> trace,
     sent |-> NoRet, pre |-> NoRet, again |-> FALSE]

\* ------------------------------------------------- the initial states

\* A jobs directory holding the given head files (each identified by the
\* name it starts with), the given canonical and master job documents and
\* the head file of another job.
JobsDirWith(heads, jobDoc, masterDoc) ==
    [n \in JobsDirNames |->
        IF n \in heads \/ n = OtherHead THEN HeadBody(n)
        ELSE IF n = YamlName(JobID1) THEN jobDoc
        ELSE IF n = YamlName(MasterID) THEN masterDoc
        ELSE Absent]

NoSecretsDir == [exists |-> FALSE, entries |-> {}]
NoStatus == [id \in RunnerIds |-> Absent]
OneRunner(job) == [id \in RunnerIds |-> IF id = "R1" THEN StateDoc(job) ELSE Absent]
OneHead == JobsDirWith({JobHeadFilepath(DefaultJob)}, JobDoc(DefaultJob), Absent)

\* Head files and the canonical job document vary.
FsHeads ==
    /\ runners = OneRunner(DefaultJob)
    /\ status = NoStatus
    /\ \E heads \in SUBSET HeadNames, jobDoc \in {Absent, JobDoc(DefaultJob)} :
          /\ Cardinality(heads) <= MaxHeadFiles
          /\ jobsDir = JobsDirWith(heads, jobDoc, Absent)
    /\ secretsDir = NoSecretsDir

\* Runner files vary.
FsRunners ==
    /\ runners \in [RunnerIds -> {Absent, Corrupt, StateDoc(DefaultJob)}]
    /\ status = [id \in RunnerIds |-> IF id = "R1" THEN Text(Stopping) ELSE Absent]
    /\ jobsDir = OneHead
    /\ secretsDir = NoSecretsDir

\* Stop signal files vary.
FsStatus ==
    /\ runners = OneRunner(DefaultJob)
    /\ \E body \in {Absent} \cup {Text(b) : b \in StopBodies},
          other \in {Absent, Text(Stopping)} :
          status = [id \in RunnerIds |-> IF id = "R1" THEN body ELSE other]
    /\ jobsDir = OneHead
    /\ secretsDir = NoSecretsDir

\* The master job and its document vary.
FsMaster ==
    /\ \E j \in Jobs : j.Status = Submitted /\ runners = OneRunner(j)
    /\ status = NoStatus
    /\ \E masterDoc \in {Absent, Corrupt, JobDoc(MasterJobRec)} :
          jobsDir = JobsDirWith({JobHeadFilepath(DefaultJob)}, Absent, masterDoc)
    /\ secretsDir = NoSecretsDir

\* The secret directory varies.
FsSecrets ==
    /\ runners = OneRunner(DefaultJob)
    /\ status = NoStatus
    /\ jobsDir = OneHead
    /\ \/ secretsDir = NoSecretsDir
       \/ \E es \in SUBSET SecretEntries :
             /\ Cardinality(es) <= MaxSecretEntries
             /\ secretsDir = [exists |-> TRUE, entries |-> es]

\* The credentials file of the repository is there.
FsCreds ==
    /\ runners = OneRunner(DefaultJob)
    /\ status = NoStatus
    /\ jobsDir = OneHead
    /\ secretsDir = NoSecretsDir
    /\ gitCreds = CredsDoc

\* Every runner process is started with a config file that parses.
GoodConfig == [p \in Procs |-> ConfigDoc(<<>>)]

\* New(): the fields of a facade over the home root <home>/.dstack, with no
\* runner id and no State.
NewResult == [path |-> Join(HomeDir, DSTACK_DIR_PATH), runnerID |-> "", state |-> NilState]

\* Every facade is as New() returns it.
New ==
    /\ runnerID = [p \in Procs |-> NewResult.runnerID]
    /\ state = [p \in Procs |-> NewResult.state]
    /\ pc = [p \in Procs |-> "idle"]
    /\ files = [p \in Procs |-> <<>>]
    /\ call = [p \in Procs |-> NoCall]

Init ==
    /\ \/ /\ FsHeads \/ FsRunners \/ FsStatus \/ FsMaster \/ FsSecrets
          /\ gitCreds = Absent
       \/ FsCreds
    /\ config = GoodConfig
    /\ procs = {"p1"}
    /\ New
    /\ heads0 = HeadFiles(jobsDir)

\* ---------------------------------------------------- the construction

\* Mutant: the `path` of the config file, when it has one, is the working
\* root.
LocalBackend_PathUsed(file, fault) ==
    LET read == ReadFile(file, fault)
        dec == Unmarshal(read.contents, [Path |-> <<>>])
    IN  IF read.err # "nil" THEN [ret |-> [kind |-> "nil"], err |-> read.err]
        ELSE IF dec.err # "nil" THEN [ret |-> [kind |-> "nil"], err |-> dec.err]
        ELSE [ret |-> [kind |-> "backend",
                       local |-> IF dec.out.Path # <<>>
                                 THEN [NewResult EXCEPT !.path = dec.out.Path]
                                 ELSE NewResult],
              err |-> "nil"]

\* The constructor registered under the name "local": reads the config file,
\* decodes it into a File and returns New().
LocalBackend(file, fault) ==
    LET read == ReadFile(file, fault)
        dec == Unmarshal(read.contents, [Path |-> <<>>])
    IN  IF read.err # "nil" THEN [ret |-> [kind |-> "nil"], err |-> read.err]
        ELSE IF dec.err # "nil" THEN [ret |-> [kind |-> "nil"], err |-> dec.err]
        ELSE [ret |-> [kind |-> "backend", local |-> NewResult], err |-> "nil"]

\* A runner process that has no facade yet calls the registered constructor
\* with the path of its config file.
RegisteredNew(p) ==
    /\ p \notin procs
    /\ \E fault \in {"none", "ReadFile"} :
          LET r == LocalBackend(config[p], fault)
          IN  /\ call' = [call EXCEPT ![p] = Call("New", fault, r.ret, r.err, <<"ReadFile">>)]
              /\ IF r.err = "nil"
                 THEN /\ procs' = procs \cup {p}
                      /\ runnerID' = [runnerID EXCEPT ![p] = r.ret.local.runnerID]
                      /\ state' = [state EXCEPT ![p] = r.ret.local.state]
                 ELSE UNCHANGED <<procs, runnerID, state>>
    /\ UNCHANGED <<fsVars, pc, files, heads0>>

\* ------------------------------------------------------ the operations
\* The runner calls Init first and the capability methods once a State is
\* held; a call is one step, except UpdateState, whose three storage calls
\* are one step each.

Idle(p) == p \in procs /\ pc[p] = "idle"
Ready(p) == Idle(p) /\ state[p].kind = "held"

\* Mutant: the error of yaml.Unmarshal is dropped.
InitResult_ParseIgnored(file, fault, held) ==
    LET got == GetFile(file, fault)
        dec == Unmarshal(got.contents, held)
    IN  IF got.err # "nil" THEN [err |-> got.err, state |-> held]
        ELSE [err |-> "nil", state |-> dec.out]

\* Mutant: an Init that fails drops the State it held.
InitResult_StateDropped(file, fault, held) ==
    LET got == GetFile(file, fault)
        dec == Unmarshal(got.contents, held)
    IN  IF got.err # "nil" THEN [err |-> got.err, state |-> NilState]
        ELSE IF dec.err # "nil" THEN [err |-> dec.err, state |-> NilState]
        ELSE [err |-> "nil", state |-> dec.out]

\* Local.Init: records the runner id, then loads runners/<ID>.yaml.
InitResult(file, fault, held) ==
    LET got == GetFile(file, fault)
        dec == Unmarshal(got.contents, held)
    IN  IF got.err # "nil" THEN [err |-> got.err, state |-> held]
        ELSE [err |-> dec.err, state |-> dec.out]

LocalInit(p) ==
    /\ Idle(p)
    /\ \E ID \in RunnerIds, fault \in {"none", "GetFile"} :
          LET r == InitResult(runners[ID], fault, state[p])
          IN  /\ runnerID' = [runnerID EXCEPT ![p] = ID]
              /\ state' = [state EXCEPT ![p] = r.state]
              /\ call' = [call EXCEPT ![p] =
                            [Call("Init", fault, NoRet, r.err, <<"GetFile">>) EXCEPT !.arg = ID]]
    /\ UNCHANGED <<fsVars, procs, pc, files, heads0>>

\* Local.Job: the held Job.
Job(p) ==
    /\ Ready(p)
    /\ call' = [call EXCEPT ![p] =
                  Call("Job", "none", [kind |-> "job", job |-> state[p].Job], "nil", <<>>)]
    /\ UNCHANGED <<fsVars, facadeVars, procs, pc, files, heads0>>

\* The runner changes the status of the Job it got from Job(), which is the
\* record the facade holds.
SetStatus(p) ==
    /\ Ready(p)
    /\ \E s \in Statuses \ {state[p].Job.Status} :
          state' = [state EXCEPT ![p].Job.Status = s]
    /\ call' = [call EXCEPT ![p] = Call("SetStatus", "none", NoRet, "nil", <<>>)]
    /\ UNCHANGED <<fsVars, runnerID, procs, pc, files, heads0>>

\* Mutant: a document that does not parse is reported as an error, as
\* GetJobByPath does.
MasterJobResult_ParseSurfaced(file, fault) ==
    LET got == GetFile(file, fault)
        dec == Unmarshal(got.contents, NoRet)
    IN  IF got.err # "nil" THEN [ret |-> [kind |-> "nil"], err |-> "nil"]
        ELSE IF dec.err # "nil" THEN [ret |-> [kind |-> "nil"], err |-> dec.err]
        ELSE [ret |-> [kind |-> "job", job |-> dec.out], err |-> "nil"]

\* Local.MasterJob: the job document of the master job, or nil.
MasterJobResult(file, fault) ==
    LET got == GetFile(file, fault)
        dec == Unmarshal(got.contents, NoRet)
    IN  IF got.err # "nil" THEN [ret |-> [kind |-> "nil"], err |-> "nil"]
        ELSE IF dec.err # "nil" THEN [ret |-> [kind |-> "nil"], err |-> "nil"]
        ELSE [ret |-> [kind |-> "job", job |-> dec.out], err |-> "nil"]

\* Mutant: the document is decoded into the held Job instead of a new one.
MasterJob_IntoHeld(p) ==
    /\ Ready(p)
    /\ \E fault \in {"none", "GetFile"} :
          LET r == MasterJobResult(FileAt(jobsDir, YamlName(state[p].Job.MasterJobID)), fault)
          IN  /\ call' = [call EXCEPT ![p] = Call("MasterJob", fault, r.ret, r.err, <<"GetFile">>)]
              /\ state' = IF r.ret.kind = "job"
                          THEN [state EXCEPT ![p].Job = r.ret.job]
                          ELSE state
    /\ UNCHANGED <<fsVars, runnerID, procs, pc, files, heads0>>

MasterJob(p) ==
    /\ Ready(p)
    /\ \E fault \in {"none", "GetFile"} :
          LET r == MasterJobResult(FileAt(jobsDir, YamlName(state[p].Job.MasterJobID)), fault)
          IN  call' = [call EXCEPT ![p] = Call("MasterJob", fault, r.ret, r.err, <<"GetFile">>)]
    /\ UNCHANGED <<fsVars, facadeVars, procs, pc, files, heads0>>

\* Mutant: the body is compared with surrounding white space trimmed.
IsStopping_Trimmed(body) == body \in {Stopping, "Stopping\n"}

\* string(body) == states.Stopping
IsStopping(body) == body = Stopping

\* Local.CheckStop: whether the stop signal file of the recorded runner id
\* says Stopping.  fault names the system call that fails for another
\* reason than absence.
CheckStopResult(file, fault) ==
    IF fault = "Stat" \/ file.kind = "absent"
    THEN [ret |-> FALSE, err |-> "nil", trace |-> <<"Stat">>]
    ELSE IF fault = "Open"
    THEN [ret |-> FALSE, err |-> "IO", trace |-> <<"Stat", "Open">>]
    ELSE IF fault = "Read"
    THEN [ret |-> FALSE, err |-> "IO", trace |-> <<"Stat", "Open", "Read">>]
    ELSE [ret |-> IsStopping(file.body), err |-> "nil", trace |-> <<"Stat", "Open", "Read">>]

\* The stop signal file runners/m;<id>;status; no such file for an id no
\* supervisor knows.
StatusFile(id) == IF id \in DOMAIN status THEN status[id] ELSE Absent

CheckStop(p) ==
    /\ Idle(p)
    /\ \E fault \in {"none", "Stat", "Open", "Read"} :
          /\ fault \in {"Open", "Read"} => StatusFile(runnerID[p]).kind # "absent"
          /\ LET r == CheckStopResult(StatusFile(runnerID[p]), fault)
             IN  call' = [call EXCEPT ![p] =
                            Call("CheckStop", fault, [kind |-> "bool", v |-> r.ret], r.err, r.trace)]
    /\ UNCHANGED <<fsVars, facadeVars, procs, pc, files, heads0>>

\* The prefix of a secret entry's name.
SecretPrefix == <<"l", ";">>

\* The path of a secret inside the credential store, as Secrets formats it.
SecretPath(job, clearName) ==
    job.RepoHostNameWithPort \o <<"/">> \o job.RepoUserName \o <<"/">>
        \o job.RepoName \o <<"/">> \o clearName

\* The name Secrets files an entry under.
ClearName(name) == ReplaceAll(name, SecretPrefix, <<>>)

\* The loop of Secrets over the directory listing: the mapping from clear
\* name to store path, built from the regular files named l;...
SecretsMapping(entries, job) ==
    LET picked == {e \in entries : ~e.dir /\ HasPrefix(e.name, SecretPrefix)}
    IN  [k \in {ClearName(e.name) : e \in picked} |-> SecretPath(job, k)]

\* ClientSecret.fetchSecret: the value of every listed secret whose file
\* exists in the directory; a missing file is skipped.
fetchSecret(entries, secrets) ==
    LET found == {k \in DOMAIN secrets :
                     [name |-> SecretPrefix \o k, dir |-> FALSE] \in entries}
    IN  [k \in found |-> <<"#">> \o k]

EmptyMap == [k \in {} |-> <<>>]
MapRet(m) == [kind |-> "map", m |-> m]

\* Mutant: the directory is read without the existence check.
StatFails_Skipped(dir, fault) == FALSE

\* os.Stat of the secret directory returns an error: the directory is
\* absent, or the call fails for another reason.
StatFails(dir, fault) == fault = "Stat" \/ ~dir.exists

\* Local.Secrets.  fault names the system call that fails for another
\* reason than absence; os.ReadDir fails on a directory that is absent.
SecretsResult(dir, job, fault) ==
    IF StatFails(dir, fault)
    THEN [ret |-> MapRet(EmptyMap), err |-> "nil", sent |-> NoRet, trace |-> <<"Stat">>]
    ELSE IF fault = "ReadDir" \/ ~dir.exists
    THEN [ret |-> [kind |-> "nil"], err |-> "IO", sent |-> NoRet,
          trace |-> <<"Stat", "ReadDir">>]
    ELSE LET secrets == SecretsMapping(dir.entries, job)
         IN  [ret |-> MapRet(fetchSecret(dir.entries, secrets)), err |-> "nil",
              sent |-> MapRet(secrets), trace |-> <<"Stat", "ReadDir", "fetchSecret">>]

Secrets(p) ==
    /\ Ready(p)
    /\ \E fault \in {"none", "Stat", "ReadDir"} :
          /\ fault = "ReadDir" => secretsDir.exists
          /\ LET r == SecretsResult(secretsDir, state[p].Job, fault)
             IN  call' = [call EXCEPT ![p] =
                            [Call("Secrets", fault, r.ret, r.err, r.trace) EXCEPT !.sent = r.sent]]
    /\ UNCHANGED <<fsVars, facadeVars, procs, pc, files, heads0>>

\* Local.Requirements: the requirements of the held Job.
Requirements(p) ==
    /\ Ready(p)
    /\ call' = [call EXCEPT ![p] =
                  Call("Requirements", "none",
                       [kind |-> "requirements", v |-> state[p].Job.Requirements], "nil", <<>>)]
    /\ UNCHANGED <<fsVars, facadeVars, procs, pc, files, heads0>>

\* Local.Shutdown: returns nil.
Shutdown(p) ==
    /\ Idle(p)
    /\ call' = [call EXCEPT ![p] = Call("Shutdown", "none", NoRet, "nil", <<>>)]
    /\ UNCHANGED <<fsVars, facadeVars, procs, pc, files, heads0>>

\* Local.Bucket: the empty string.
Bucket(p) ==
    /\ Idle(p)
    /\ call' = [call EXCEPT ![p] =
                  Call("Bucket", "none", [kind |-> "string", v |-> ""], "nil", <<>>)]
    /\ UNCHANGED <<fsVars, facadeVars, procs, pc, files, heads0>>

\* Prefixes the runner lists: the head prefix of the job, the prefix of the
\* master job's document.
SubDirs == {HeadPrefixOf(JobID1), <<"M">>}

\* Local.ListSubDir: what LocalStorage.ListFile returns for the prefix.
ListSubDirResult(dir, prefix, fault) ==
    IF fault = "ListFile" THEN [ret |-> [kind |-> "nil"], err |-> "IO"]
    ELSE [ret |-> [kind |-> "list", v |-> ListFile(dir, prefix)], err |-> "nil"]

ListSubDir(p) ==
    /\ Idle(p)
    /\ \E dir \in SubDirs, fault \in {"none", "ListFile"} :
          LET r == ListSubDirResult(jobsDir, dir, fault)
          IN  call' = [call EXCEPT ![p] =
                         [Call("ListSubDir", fault, r.ret, r.err, <<"ListFile">>)
                            EXCEPT !.arg = dir]]
    /\ UNCHANGED <<fsVars, facadeVars, procs, pc, files, heads0>>

\* ClientSecret.fetchCredentials: the credentials the repository's file
\* holds, nil when there is no such file.
fetchCredentials(file) ==
    IF file.kind = "creds"
    THEN [kind |-> "creds", protocol |-> file.protocol, username |-> file.username,
          secret |-> file.secret]
    ELSE [kind |-> "nil"]

\* Local.GitCredentials: the credentials of the repository of the held Job.
GitCredentials(p) ==
    /\ Ready(p)
    /\ call' = [call EXCEPT ![p] =
                  Call("GitCredentials", "none", fetchCredentials(gitCreds), "nil",
                       <<"fetchCredentials">>)]
    /\ UNCHANGED <<fsVars, facadeVars, procs, pc, files, heads0>>

\* The call p starts repeats the one before it: that was an UpdateState, it
\* succeeded, and the runner has made no other call and no change to the
\* Job since.
Repeats(p) == call[p].op = "UpdateState" /\ call[p].err = "nil"

\* Mutant: the error of PutFile is dropped and the call goes on.
UpdateStateWrite_ErrorIgnored(p) ==
    /\ Ready(p)
    /\ LET job == state[p].Job
           begun == [Call("UpdateState", "none", NoRet, "pending", <<"PutFile">>)
                       EXCEPT !.pre = HeadsOf(jobsDir), !.again = Repeats(p)]
       IN  \/ /\ jobsDir' = PutFile(jobsDir, JobFilepath(job), Marshal(job))
              /\ call' = [call EXCEPT ![p] = begun]
           \/ /\ jobsDir' \in {jobsDir, PutFile(jobsDir, JobFilepath(job), Corrupt)}
              /\ call' = [call EXCEPT ![p] = [begun EXCEPT !.fault = "PutFile"]]
    /\ pc' = [pc EXCEPT ![p] = "list"]
    /\ UNCHANGED <<runners, status, secretsDir, gitCreds, config, facadeVars, procs, files, heads0>>

\* Local.UpdateState, step 1: serialize the Job and write it to its
\* canonical path.  A write that fails may leave a truncated document.
UpdateStateWrite(p) ==
    /\ Ready(p)
    /\ LET job == state[p].Job
           begun == [Call("UpdateState", "none", NoRet, "pending", <<"PutFile">>)
                       EXCEPT !.pre = HeadsOf(jobsDir), !.again = Repeats(p)]
       IN  \/ /\ jobsDir' = PutFile(jobsDir, JobFilepath(job), Marshal(job))
              /\ pc' = [pc EXCEPT ![p] = "list"]
              /\ call' = [call EXCEPT ![p] = begun]
           \/ /\ jobsDir' \in {jobsDir, PutFile(jobsDir, JobFilepath(job), Corrupt)}
              /\ pc' = pc
              /\ call' = [call EXCEPT ![p] = [begun EXCEPT !.fault = "PutFile", !.err = "IO"]]
    /\ UNCHANGED <<runners, status, secretsDir, gitCreds, config, facadeVars, procs, files, heads0>>

\* Local.UpdateState, step 2: list the head-prefix directory.
UpdateStateList(p) ==
    /\ p \in procs /\ pc[p] = "list"
    /\ LET listed == [call[p] EXCEPT !.trace = Append(@, "ListFile")]
       IN  \/ /\ files' = [files EXCEPT ![p] = ListFile(jobsDir, JobHeadFilepathPrefix(state[p].Job))]
              /\ pc' = [pc EXCEPT ![p] = "rename"]
              /\ call' = [call EXCEPT ![p] = listed]
           \/ /\ files' = files
              /\ pc' = [pc EXCEPT ![p] = "idle"]
              /\ call' = [call EXCEPT ![p] = [listed EXCEPT !.fault = "ListFile", !.err = "IO"]]
    /\ UNCHANGED <<fsVars, facadeVars, procs, heads0>>

\* Mutant: the loop ranges over files[1:].
RenameRange_SkipFirst(listing) == SubSeq(listing, 2, Len(listing))

\* Mutant: the loop ranges over every listed entry.
RenameRange_All(listing) == listing

\* files[:1], the entries the loop of UpdateState ranges over.
RenameRange(listing) == SubSeq(listing, 1, 1)

\* Mutant: the entry is copied to the head file name and the source stays.
RenameEach_SourceKept(dir, range, to) ==
    IF range = <<>> THEN [dir |-> dir, err |-> "nil"]
    ELSE IF FileAt(dir, Head(range)).kind = "absent" THEN [dir |-> dir, err |-> "NotFound"]
    ELSE [dir |-> [dir EXCEPT ![to] = dir[Head(range)]], err |-> "nil"]

\* Mutant: the error of RenameFile is dropped.
RenameEach_ErrorIgnored(dir, range, to) ==
    [dir |-> IF range # <<>> /\ FileAt(dir, Head(range)).kind # "absent"
             THEN RenameFile(dir, Head(range), to)
             ELSE dir,
     err |-> "nil"]

\* The loop of UpdateState: each entry of the range is renamed to the head
\* file name; the loop stops at the first rename that fails.
RECURSIVE RenameEach(_, _, _)
RenameEach(dir, range, to) ==
    IF range = <<>> THEN [dir |-> dir, err |-> "nil"]
    ELSE IF FileAt(dir, Head(range)).kind = "absent" THEN [dir |-> dir, err |-> "NotFound"]
    ELSE RenameEach(RenameFile(dir, Head(range), to), Tail(range), to)

\* Local.UpdateState, step 3: rename the first listed entry to the head file
\* name of the Job.  Slicing an empty listing to [:1] panics when the listing
\* has no spare capacity; when it has, the loop ranges over the empty string
\* beyond its length, and renaming that fails.
UpdateStateRename(p) ==
    /\ p \in procs /\ pc[p] = "rename"
    /\ LET to == JobHeadFilepath(state[p].Job)
           renamed == [call[p] EXCEPT !.trace = Append(@, "RenameFile")]
       IN  IF files[p] = <<>>
           THEN /\ jobsDir' = jobsDir
                /\ \/ /\ pc' = [pc EXCEPT ![p] = "crashed"]
                      /\ call' = [call EXCEPT ![p] = [call[p] EXCEPT !.err = "panic"]]
                   \/ /\ pc' = [pc EXCEPT ![p] = "idle"]
                      /\ call' = [call EXCEPT ![p] = [renamed EXCEPT !.err = "IO"]]
           ELSE /\ pc' = [pc EXCEPT ![p] = "idle"]
                /\ \/ LET r == RenameEach(jobsDir, RenameRange(files[p]), to)
                      IN  /\ jobsDir' = r.dir
                          /\ call' = [call EXCEPT ![p] = [renamed EXCEPT !.err = r.err]]
                   \/ /\ jobsDir' = jobsDir
                      /\ call' = [call EXCEPT ![p] =
                                    [renamed EXCEPT !.fault = "RenameFile", !.err = "IO"]]
    /\ UNCHANGED <<runners, status, secretsDir, gitCreds, config, facadeVars, procs, files, heads0>>

\* ------------------------------------------------- the specifications

Next ==
    \E p \in Procs :
        \/ LocalInit(p)
        \/ Job(p)
        \/ SetStatus(p)
        \/ MasterJob(p)
        \/ CheckStop(p)
        \/ Secrets(p)
        \/ Requirements(p)
        \/ Shutdown(p)
        \/ Bucket(p)
        \/ ListSubDir(p)
        \/ GitCredentials(p)
        \/ UpdateStateWrite(p)
        \/ UpdateStateList(p)
        \/ UpdateStateRename(p)

\* One runner process.
Spec == Init /\ [][Next]_vars

\* ----------------------------------------------------------- the claims

\* The last call of p was op and has returned (a panic does not return).
Returned(p, op) ==
    /\ p \in procs
    /\ call[p].op = op
    /\ pc[p] = "idle"
    /\ call[p].err # "pending"

Succeeded(p, op) == Returned(p, op) /\ call[p].err = "nil"

\* The entries a snapshot of the head-prefix directory holds.
Present(heads) == {n \in DOMAIN heads : heads[n].kind # "absent"}

\* The lexicographically first of a non-empty set of names.
First(names) == CHOOSE x \in names : \A y \in names \ {x} : StrLess(x, y)

\* C1: when the job's head-prefix directory starts with exactly one head
\* file, it holds exactly one head file in every state, and after every
\* successful UpdateState that file is named by the head encoding of the
\* held Job.
C1_OneHeadFile ==
    Cardinality(heads0) = 1 =>
        /\ Cardinality(HeadFiles(jobsDir)) = 1
        /\ \A p \in procs :
              Succeeded(p, "UpdateState") =>
                  HeadFiles(jobsDir) = {JobHeadFilepath(state[p].Job)}

\* C1 witness: a successful UpdateState has moved the one head file to a
\* new name.
C1_Witness ==
    /\ Cardinality(heads0) = 1
    /\ \E p \in procs :
          /\ Succeeded(p, "UpdateState")
          /\ JobHeadFilepath(state[p].Job) \notin heads0
          /\ jobsDir[JobHeadFilepath(state[p].Job)].kind = "head"
          /\ jobsDir[JobHeadFilepath(state[p].Job)].id \in heads0

\* C2: an UpdateState whose listing of the head prefix is empty writes the
\* job document, renames nothing and returns without error or crash.
C2_EmptyListingReturns ==
    \A p \in procs :
        ( /\ call[p].op = "UpdateState"
          /\ call[p].trace # <<"PutFile">>
          /\ call[p].fault = "none"
          /\ pc[p] # "rename"
          /\ files[p] = <<>> )
        => /\ pc[p] = "idle"
           /\ call[p].err = "nil"
           /\ call[p].trace = <<"PutFile", "ListFile">>
           /\ jobsDir[JobFilepath(state[p].Job)] = Marshal(state[p].Job)

\* C3: CheckStop answers (true, nil) only for a stop signal file of the
\* recorded runner id whose whole contents are Stopping; when no system
\* call fails it answers (true, nil) for such a file and (false, nil) for
\* an absent file and for any other contents.
C3_CheckStop ==
    \A p \in procs :
        call[p].op = "CheckStop" =>
            LET file == StatusFile(runnerID[p])
                stopping == file.kind = "text" /\ file.body = "Stopping"
            IN  /\ (call[p].ret.v /\ call[p].err = "nil") => stopping
                /\ call[p].fault = "none" =>
                      /\ call[p].err = "nil"
                      /\ call[p].ret.v <=> stopping

\* C3 witness: CheckStop answered true for the runner id R2.
C3_Witness ==
    \E p \in procs :
        /\ call[p].op = "CheckStop"
        /\ runnerID[p] = "R2"
        /\ call[p].ret.v
        /\ status["R1"] = Text("Stopping\n")

\* A name without its leading prefix.
TrimPrefix(s, prefix) ==
    IF HasPrefix(s, prefix) THEN SubSeq(s, Len(prefix) + 1, Len(s)) ELSE s

\* The mapping C4 describes: each regular file named l;N is filed under N,
\* the name without its leading prefix.
StrippedMapping(entries, job) ==
    LET picked == {e \in entries : ~e.dir /\ HasPrefix(e.name, SecretPrefix)}
    IN  [k \in {TrimPrefix(e.name, SecretPrefix) : e \in picked} |-> SecretPath(job, k)]

\* C4: the mapping Secrets hands to the credential store has as keys the
\* names of the regular l;-files without their leading l;, each mapped to
\* <host>/<user>/<repo>/<name>.
C4_SecretsStripPrefix ==
    \A p \in procs :
        (call[p].op = "Secrets" /\ call[p].sent.kind = "map") =>
            call[p].sent.m = StrippedMapping(secretsDir.entries, state[p].Job)

\* The head-prefix directory after the first entry of a snapshot with two or
\* more entries was renamed to the head file name of the held Job, as far as
\* the entries named in keep are concerned: the first entry is at the new
\* name, and the entries of keep hold what they held.
FirstRenamed(p, keep) ==
    LET pre == call[p].pre
        first == First(Present(pre))
        to == JobHeadFilepath(state[p].Job)
    IN  /\ jobsDir[to] = pre[first]
        /\ first # to => jobsDir[first].kind = "absent"
        /\ \A n \in keep : jobsDir[n] = pre[n]

TwoOrMoreHeads(p) ==
    /\ Succeeded(p, "UpdateState")
    /\ Cardinality(Present(call[p].pre)) >= 2

\* C5 as stated: with two or more entries under the head prefix, a
\* successful UpdateState renames the first entry to the new head file name
\* and every other entry keeps its name and contents.
C5_OthersKept ==
    \A p \in procs :
        TwoOrMoreHeads(p) =>
            FirstRenamed(p, Present(call[p].pre) \ {First(Present(call[p].pre))})

\* C5 amended: with two or more entries under the head prefix, a successful
\* UpdateState renames the first entry to the new head file name, and every
\* other entry that is not named by the new head file name keeps its name
\* and contents (an entry of that name is replaced by the renamed one).
C5_OthersKeptUnlessTarget ==
    \A p \in procs :
        TwoOrMoreHeads(p) =>
            FirstRenamed(p, Present(call[p].pre)
                              \ {First(Present(call[p].pre)), JobHeadFilepath(state[p].Job)})

\* C5 witness: UpdateState succeeded on two head files, moving the first to
\* a name the other did not have.
C5_Witness ==
    \E p \in procs :
        /\ TwoOrMoreHeads(p)
        /\ JobHeadFilepath(state[p].Job) \notin Present(call[p].pre)
        /\ Cardinality(HeadFiles(jobsDir)) = 2

\* C6: Init succeeds only on a runner file that exists and parses, and then
\* the held Job, which Job() returns, is the Job of that file's State; when
\* no read fails for another reason, Init succeeds on such a file, fails
\* with NotFound on an absent one and with Corrupt on an unparseable one.
C6_Init ==
    \A p \in procs :
        /\ call[p].op = "Init" =>
              LET file == runners[runnerID[p]]
              IN  /\ call[p].err = "nil" =>
                        file.kind = "state" /\ state[p] = HeldState(file.job)
                  /\ call[p].fault = "none" =>
                        call[p].err = CASE file.kind = "state" -> "nil"
                                        [] file.kind = "absent" -> "NotFound"
                                        [] file.kind = "corrupt" -> "Corrupt"
        /\ call[p].op = "Job" =>
              call[p].ret = [kind |-> "job", job |-> state[p].Job]

\* C6 witness: Init succeeded for R2 while the runner file of R1 does not
\* parse.
C6_Witness ==
    \E p \in procs :
        /\ call[p].op = "Init"
        /\ call[p].err = "nil"
        /\ runnerID[p] = "R2"
        /\ runners["R1"] = Corrupt

\* C7: MasterJob never returns an error: its result is the parsed job when
\* the master job document exists, is read and parses, and nil when the
\* document is missing, unreadable or unparseable.
C7_MasterJob ==
    \A p \in procs :
        call[p].op = "MasterJob" =>
            LET file == FileAt(jobsDir, YamlName(state[p].Job.MasterJobID))
            IN  /\ call[p].err = "nil"
                /\ IF call[p].fault = "none" /\ file.kind = "job"
                   THEN call[p].ret = [kind |-> "job", job |-> file.job]
                   ELSE call[p].ret = [kind |-> "nil"]

\* C7 witness: MasterJob answered nil for a master job document that does
\* not parse.
C7_Witness ==
    \E p \in procs :
        /\ call[p].op = "MasterJob"
        /\ state[p].Job.MasterJobID = MasterID
        /\ jobsDir[YamlName(MasterID)] = Corrupt
        /\ call[p].ret = [kind |-> "nil"]

\* C8: a CheckStop that meets a failure other than absence, at the
\* existence check, the open or the read, returns an error.
C8_FailuresSurface ==
    \A p \in procs :
        (call[p].op = "CheckStop" /\ call[p].fault # "none") => call[p].err # "nil"

\* C9: with the secret directory absent, Secrets returns the empty mapping
\* and no error, reads no directory and does not call the credential store.
C9_NoSecretsDir ==
    \A p \in procs :
        (call[p].op = "Secrets" /\ ~secretsDir.exists) =>
            /\ call[p].ret.kind = "map"
            /\ DOMAIN call[p].ret.m = {}
            /\ call[p].err = "nil"
            /\ call[p].trace = <<"Stat">>
            /\ call[p].sent = NoRet

\* C9 witness: Secrets was called with the secret directory absent.
C9_Witness ==
    \E p \in procs :
        /\ call[p].op = "Secrets"
        /\ call[p].fault = "none"
        /\ ~secretsDir.exists

\* C10 as stated: in every state of an UpdateState call or after it,
\* failed or not, a head file that carries the head encoding of the held
\* Job comes with a canonical job file that holds its serialization; and a
\* failed document write is followed by no listing and no rename.
C10_HeadImpliesDocument ==
    \A p \in procs :
        call[p].op = "UpdateState" =>
            /\ FileAt(jobsDir, JobHeadFilepath(state[p].Job)).kind = "head" =>
                  jobsDir[JobFilepath(state[p].Job)] = Marshal(state[p].Job)
            /\ call[p].fault = "PutFile" => call[p].trace = <<"PutFile">>

\* C10 amended: UpdateState calls PutFile, then ListFile, then RenameFile;
\* with no other writer, from the listing on and after a rename by this
\* call, failed or not, the canonical job file holds the serialization of
\* the held Job; and a failed document write is followed by no listing and
\* no rename, the head files being what they were.
C10_WriteListRename ==
    \A p \in procs :
        call[p].op = "UpdateState" =>
            /\ call[p].trace \in {<<"PutFile">>, <<"PutFile", "ListFile">>,
                                  <<"PutFile", "ListFile", "RenameFile">>}
            /\ (Len(call[p].trace) > 1 \/ pc[p] \in {"list", "rename", "crashed"}) =>
                  jobsDir[JobFilepath(state[p].Job)] = Marshal(state[p].Job)
            /\ call[p].fault = "PutFile" =>
                  /\ call[p].trace = <<"PutFile">>
                  /\ HeadsOf(jobsDir) = call[p].pre

\* C10 witness: the rename of an UpdateState failed after its document was
\* written.
C10_Witness ==
    \E p \in procs :
        /\ Returned(p, "UpdateState")
        /\ call[p].fault = "RenameFile"
        /\ jobsDir[JobFilepath(state[p].Job)] = Marshal(state[p].Job)
        /\ FileAt(jobsDir, JobHeadFilepath(state[p].Job)).kind = "absent"

\* ------------------------------------------- two runners, one directory

\* Two runner processes, R1 and R2, whose runner files hold the same job:
\* each has called Init with its runner id and has set the status of its
\* Job.  The head-prefix directory starts with any of the head files.
InitConc ==
    /\ runners = [id \in RunnerIds |-> StateDoc(DefaultJob)]
    /\ status = NoStatus
    /\ \E heads \in SUBSET HeadNames :
          /\ Cardinality(heads) <= MaxHeadFiles
          /\ jobsDir = JobsDirWith(heads, JobDoc(DefaultJob), Absent)
    /\ secretsDir = NoSecretsDir
    /\ gitCreds = Absent
    /\ config = GoodConfig
    /\ procs = Procs
    /\ runnerID = [p \in Procs |-> IF p = "p1" THEN "R1" ELSE "R2"]
    /\ state \in [Procs -> {HeldState(j) : j \in {k \in Jobs : k.MasterJobID = <<>>}}]
    /\ pc = [p \in Procs |-> "idle"]
    /\ files = [p \in Procs |-> <<>>]
    /\ call = [p \in Procs |->
                 IF state[p].Job = DefaultJob
                 THEN Call("Init", "none", NoRet, "nil", <<"GetFile">>)
                 ELSE Call("SetStatus", "none", NoRet, "nil", <<>>)]
    /\ heads0 = HeadFiles(jobsDir)

\* The calls of the runners interleave; those of UpdateState interleave at
\* its storage calls.
NextConc ==
    \E p \in Procs :
        \/ UpdateStateWrite(p)
        \/ UpdateStateList(p)
        \/ UpdateStateRename(p)

SpecConc == InitConc /\ [][NextConc]_vars

\* The rename step of q returns, having met no storage fault on a listing
\* that was not empty.
RenameReturns(q) ==
    /\ pc[q] = "rename"
    /\ pc'[q] = "idle"
    /\ files[q] # <<>>
    /\ call'[q].fault = "none"

\* C11: two UpdateState calls on one head-prefix directory that starts with
\* a single head file, interleaved at their storage calls, can lose a
\* rename.  The rename of a call succeeds, leaving the one head file under
\* the name of its Job, when the entry the call listed is still there; when
\* the other runner has renamed that entry away since the listing, the
\* rename fails on the vanished source and the head file keeps the name the
\* other runner gave it.  The directory never holds more than one head file.
C11_LostRename ==
    [][ Cardinality(heads0) = 1 =>
          /\ Cardinality(HeadFiles(jobsDir')) = 1
          /\ \A q \in Procs :
                RenameReturns(q) =>
                    IF FileAt(jobsDir, files[q][1]).kind = "absent"
                    THEN /\ call'[q].err = "NotFound"
                         /\ jobsDir' = jobsDir
                    ELSE /\ call'[q].err = "nil"
                         /\ HeadFiles(jobsDir') = {JobHeadFilepath(state[q].Job)} ]_vars

\* C11 witness: both calls have returned, the rename of one succeeded, that
\* of the other, which finished last, failed on the vanished source, and
\* the head file does not carry the name of the Job of the latter.
C11_Witness ==
    /\ Cardinality(heads0) = 1
    /\ \E p \in Procs : \E q \in Procs \ {p} :
          /\ Succeeded(p, "UpdateState")
          /\ Returned(q, "UpdateState")
          /\ call[q].err = "NotFound"
          /\ HeadFiles(jobsDir) = {JobHeadFilepath(state[p].Job)}
          /\ JobHeadFilepath(state[q].Job) # JobHeadFilepath(state[p].Job)

\* ------------------------------------------------ the read-only operations

ReadOnlyOps ==
    {"Job", "MasterJob", "Requirements", "CheckStop", "Shutdown", "Bucket",
     "ListSubDir", "GitCredentials", "Secrets"}

\* C12: Job, MasterJob, Requirements, CheckStop, Shutdown, Bucket, ListSubDir,
\* GitCredentials and Secrets are read-only: a step in which a facade makes
\* one of these calls leaves the held State, the recorded runner id and every
\* file as they were.  Of the operations of the facade only Init changes the
\* held State or the runner id (the Job inside the held State is also changed
\* by the runner, through the record Job() handed out), and files change only
\* in the steps of UpdateState.
C12_ReadOnly ==
    [][ \A p \in Procs :
          /\ call'[p] # call[p] /\ call'[p].op \in ReadOnlyOps
                => UNCHANGED <<fsVars, runnerID, state>>
          /\ state'[p] # state[p] => call'[p].op \in {"Init", "SetStatus"}
          /\ runnerID'[p] # runnerID[p] => call'[p].op = "Init"
          /\ fsVars' # fsVars => \E q \in Procs : call'[q].op = "UpdateState" ]_vars

\* C12 witness: with a State held and credentials on file, the facade has
\* fetched the credentials of the repository.
C12_Witness ==
    \E p \in Procs :
        /\ Succeeded(p, "GitCredentials")
        /\ call[p].ret.kind = "creds"
        /\ state[p].kind = "held"
        /\ runnerID[p] \in RunnerIds
        /\ HeadFiles(jobsDir) # {}

\* ----------------------------------------------------- the constructor

\* No runner process has a facade yet; each is started with any config file.
InitNew ==
    /\ runners = OneRunner(DefaultJob)
    /\ status = NoStatus
    /\ jobsDir = OneHead
    /\ secretsDir = NoSecretsDir
    /\ gitCreds = Absent
    /\ config \in [Procs -> ConfigFiles]
    /\ procs = {}
    /\ New
    /\ heads0 = HeadFiles(jobsDir)

NextNew == \E p \in Procs : RegisteredNew(p)

SpecNew == InitNew /\ [][NextNew]_vars

\* The last call of p was the registered constructor.
Constructed(p) == call[p].op = "New"

\* C13: the registered constructor fails exactly when the config file cannot
\* be read or does not parse; every backend it constructs from a config file
\* that is read and parses is the same, whatever the `path` of the file: a
\* facade over the working root <home>/.dstack with no runner id and no State.
C13_Constructor ==
    /\ \A p \in Procs :
          Constructed(p) =>
              /\ call[p].err # "nil" <=>
                    \/ call[p].fault = "ReadFile"
                    \/ config[p].kind \in {"absent", "corrupt"}
              /\ call[p].err = "nil" =>
                    /\ call[p].ret.kind = "backend"
                    /\ call[p].ret.local.path = <<"home", "u", ".dstack">>
                    /\ call[p].ret.local.runnerID = ""
                    /\ call[p].ret.local.state = NilState
    /\ \A p \in Procs, q \in Procs :
          /\ Constructed(p) /\ call[p].err = "nil"
          /\ Constructed(q) /\ call[q].err = "nil"
          => call[p].ret = call[q].ret

\* C13 witness: two backends were constructed from config files that name
\* different paths.
C13_Witness ==
    \E p \in Procs : \E q \in Procs \ {p} :
        /\ Constructed(p) /\ call[p].err = "nil"
        /\ Constructed(q) /\ call[q].err = "nil"
        /\ config[p].path # <<>>
        /\ config[q].path # <<>>
        /\ config[p].path # config[q].path

\* ------------------------------------------------ the number of head files

\* C14: UpdateState never adds a head file.  Whatever number of head files
\* the head-prefix directory starts with and however the steps of any number
\* of calls of two runners interleave, calls that fail included, the directory
\* never holds more head files than it started with.
C14_NoMoreHeadFiles ==
    Cardinality(HeadFiles(jobsDir)) <= Cardinality(heads0)

\* C14 witness: from two head files, the call of one runner succeeded and
\* that of the other failed, and the head files are no longer those the
\* directory started with.
C14_Witness ==
    /\ Cardinality(heads0) >= 2
    /\ HeadFiles(jobsDir) # heads0
    /\ \E p \in Procs : \E q \in Procs \ {p} :
          /\ Succeeded(p, "UpdateState")
          /\ Returned(q, "UpdateState")
          /\ call[q].err # "nil"

\* ------------------------------------------------------------ idempotence

\* The second of two calls of UpdateState in a row has returned, having met
\* no storage fault, and left the head-prefix directory and the job document
\* as the first call left them, its rename being that of the head file onto
\* its own name.
SecondLeftNoTrace(p) ==
    /\ call[p].err = "nil"
    /\ HeadsOf(jobsDir) = call[p].pre
    /\ jobsDir[JobFilepath(state[p].Job)] = Marshal(state[p].Job)
    /\ files[p][1] = JobHeadFilepath(state[p].Job)

SecondReturned(p) ==
    /\ Returned(p, "UpdateState")
    /\ call[p].again
    /\ call[p].fault = "none"

\* C15 as stated: starting with at least one head file, two calls of
\* UpdateState in a row with the same Job both succeed and the second changes
\* nothing, renaming the head file onto its own name.
C15_Idempotent ==
    \A p \in Procs : SecondReturned(p) => SecondLeftNoTrace(p)

\* C15 amended: two calls of UpdateState in a row with the same Job both
\* succeed and the second changes nothing, renaming the head file onto its
\* own name, when the directory started with exactly one head file or, more
\* generally, when the head file the first call left is the first entry the
\* second call lists.
C15_IdempotentWhenFirst ==
    \A p \in Procs :
        /\ SecondReturned(p)
        /\ \/ Cardinality(heads0) = 1
           \/ First(Present(call[p].pre)) = JobHeadFilepath(state[p].Job)
        => SecondLeftNoTrace(p)

\* C15 witness: from exactly one head file that does not carry the name of
\* the Job, the second of two calls in a row has returned.
C15_Witness ==
    \E p \in Procs :
        /\ SecondReturned(p)
        /\ Cardinality(heads0) = 1
        /\ heads0 # {JobHeadFilepath(state[p].Job)}

\* ------------------------------------------------------------ a failed Init

\* The step is, or follows, a call of Init by p that failed.
InitFailed(p) == call'[p].op = "Init" /\ call'[p].err # "nil"

====
